---- MODULE Spec2Model ----
(***************************************************************************)
(* Model of tech/tech/bom_custom.py: the before_save hook bom_custom that  *)
(* copies a template BOM's items, operations and routing to the BOMs of    *)
(* the template item's variants.                                           *)
(*                                                                         *)
(* Storage is modelled as two copies of the BOM tables: db is what the     *)
(* hook's open database transaction sees, committed is what               *)
(* frappe.db.commit() has made durable.  Every statement of the hook that  *)
(* reads or writes storage is one action; an exception inside the try      *)
(* block (lines 48-151) is the action Raise, taken instead of the          *)
(* statement the hook is about to execute.  Exceptions outside the try     *)
(* block (lines 14-45) leave the hook at once and are not modelled.        *)
(***************************************************************************)
EXTENDS Integers, Sequences, FiniteSets, TLC

\* ------------------------------------------------------------- bounds
MaxTplLines == 2
MaxPriorLines == 2
MaxFaults == 1
MaxRuns == 2

\* ------------------------------------------------------------ catalog
None == "None"

\* Python truthiness of a value read from storage: None and "" are falsy.
Truthy(x) == x \notin {None, ""}

TemplateItem == "T"
VariantNames == {"T-S", "T-M"}
BomNames == {"BOM-1", "BOM-2", "BOM-3"}

\* The Size value a variant of T carries when it carries one.
OwnSize(v) == IF v = "T-S" THEN "S" ELSE "M"

Attr(a, x) == [attribute |-> a, attribute_value |-> x]

\* The Item rows derived from T that a run may find: enabled with a Size
\* (after another attribute), enabled without a Size, and disabled.
VariantChoices(v) ==
    { [disabled |-> FALSE, attributes |-> <<Attr("Colour", "Red"), Attr("Size", OwnSize(v))>>],
      [disabled |-> FALSE, attributes |-> <<Attr("Colour", "Red")>>],
      [disabled |-> TRUE,  attributes |-> <<Attr("Size", OwnSize(v))>>] }

IvaRow(p, t, a, x) ==
    [parent |-> p, variant_of |-> t, attribute |-> a, attribute_value |-> x]

\* Item Variant Attribute rows of the component items: A-S always exists, A-M
\* may or may not; A-L is a variant of A by another attribute, C-M a variant
\* of another template.
IvaFixed ==
    { IvaRow("A-S", "A", "Size", "S"), IvaRow("A-L", "A", "Length", "M"),
      IvaRow("C-M", "C", "Size", "M") }
IvaOptional == { IvaRow("A-M", "A", "Size", "M") }

\* Item.item_name of the component items; B has none.
ItemName(code) ==
    CASE code = "A-S" -> "Part A small"
      [] code = "A-M" -> "Part A medium"
      [] code = "A"   -> "Part A"
      [] OTHER        -> None

\* --------------------------------------------------------- the rows
TplLine(code, hv, q, r, u) ==
    [item_code |-> code, has_variants |-> hv, item_name |-> "tpl " \o code,
     qty |-> q, rate |-> r, uom |-> u]

Line(code, name, q, r, u, i, c) ==
    [item_code |-> code, item_name |-> name, qty |-> q, rate |-> r,
     uom |-> u, idx |-> i, creation |-> c]

Op(o, w, t, i, c) ==
    [operation |-> o, workstation |-> w, time_in_mins |-> t, idx |-> i,
     creation |-> c]

TplOp(o, w, t) == [operation |-> o, workstation |-> w, time_in_mins |-> t]

\* Sequences over S of length at most n.
RECURSIVE SeqsUpTo(_, _)
SeqsUpTo(S, n) ==
    IF n = 0 THEN { <<>> }
    ELSE SeqsUpTo(S, n - 1) \cup
         { Append(s, x) : s \in { t \in SeqsUpTo(S, n - 1) : Len(t) = n - 1 }, x \in S }

\* All orders in which a query without ORDER BY may return the rows S.
Perms(S) ==
    { s \in [1..Cardinality(S) -> S] : \A i, j \in 1..Cardinality(S) : s[i] = s[j] => i = j }

\* Child rows as stored: idx is the position in the table.
Numbered(rows) ==
    [i \in 1..Len(rows) |->
        Line(rows[i].item_code, rows[i].item_name, rows[i].qty, rows[i].rate,
             rows[i].uom, i, 0)]

\* Template lines of the fault-tolerance scenarios and of the data scenarios.
TplLinesSmall ==
    { TplLine("A", TRUE, 1, 10, "Nos"), TplLine("B", FALSE, 2, 20, "Box") }
TplLinesData ==
    { TplLine("A", TRUE, 1, 10, "Nos"), TplLine("B", FALSE, 1, 10, "Nos"),
      TplLine("B", FALSE, 2, 20, "Box"), TplLine("A-S", FALSE, 2, 20, "Box") }

\* Line items a variant BOM may hold before the hook runs.
PriorLinesData ==
    { TplLine("A-S", FALSE, 3, 30, "Kg"), TplLine("B", FALSE, 3, 30, "Kg"),
      TplLine("B", FALSE, 4, 40, "Kg") }

OpCut == TplOp("Cut", "W1", 5)
OpSew == TplOp("Sew", "W2", 7)

BomRow(ls, os, m) ==
    [items |-> Numbered(ls),
     operations |-> [i \in 1..Len(os) |-> Op(os[i].operation, os[i].workstation, os[i].time_in_mins, i, 0)],
     routing |-> "R0", modified |-> m]

VARIABLES
    item_has_variants,      \* Item T: has_variants
    variants,               \* Item rows with variant_of = T
    iva,                    \* Item Variant Attribute rows
    bom_meta,               \* BOM: item, is_active, docstatus
    doc,                    \* the template BOM being saved
    db,                     \* BOM items, operations, routing, modified (open transaction)
    committed,              \* the same, as of the last commit
    pc, variant_items, vi, parent_size, variant_boms, bi,
    qty_rate_map, li, oi, errors, missing_variant_errors,
    msgs,                   \* frappe.msgprint calls
    raised,                 \* frappe.throw calls that left the hook
    logs,                   \* frappe.log_error calls
    db0,                    \* storage when the current run started
    commits,                \* frappe.db.commit() calls of the current run
    synced,                 \* BOMs whose reconciliation reached its commit
    faults,                 \* exceptions raised inside the try block
    scenario,               \* "faults": one save with exceptions; "resave": saves in a row
    run                     \* which run of the hook this is; also now()

catalog == <<item_has_variants, variants, iva, bom_meta, doc, scenario>>
locals == <<variant_items, vi, parent_size, variant_boms, bi, qty_rate_map, li, oi>>
vars == <<item_has_variants, variants, iva, bom_meta, doc, db, committed,
          pc, variant_items, vi, parent_size, variant_boms, bi,
          qty_rate_map, li, oi, errors, missing_variant_errors,
          msgs, raised, logs, db0, commits, synced, faults, scenario, run>>

\* ---------------------------------------------------------------- Init
Meta(item, active, ds) == [item |-> item, is_active |-> active, docstatus |-> ds]

InitLocals ==
    /\ pc = "start"
    /\ variant_items = <<>>
    /\ vi = 0
    /\ parent_size = None
    /\ variant_boms = <<>>
    /\ bi = 0
    /\ qty_rate_map = <<>>
    /\ li = 0
    /\ oi = 0
    /\ errors = <<>>
    /\ missing_variant_errors = <<>>
    /\ msgs = <<>>
    /\ raised = <<>>
    /\ logs = <<>>
    /\ commits = 0
    /\ synced = {}
    /\ faults = 0
    /\ run = 1

\* Fault-tolerance scenarios: every shape of the catalog, few data values.
InitFaults ==
    /\ scenario = "faults"
    /\ item_has_variants \in BOOLEAN
    /\ variants \in [VariantNames -> UNION { VariantChoices(v) : v \in VariantNames }]
    /\ \A v \in VariantNames : variants[v] \in VariantChoices(v)
    /\ iva \in { IvaFixed, IvaFixed \cup IvaOptional }
    /\ \E m2 \in {Meta("T-M", 1, 1), Meta("T-M", 1, 2)},
          m3 \in {Meta("T-S", 1, 1), Meta("T-S", 0, 0)} :
          bom_meta = [b \in BomNames |->
                        CASE b = "BOM-1" -> Meta("T-S", 1, 0)
                          [] b = "BOM-2" -> m2
                          [] OTHER -> m3]
    /\ \E ls \in SeqsUpTo(TplLinesSmall, MaxTplLines), os \in { <<>>, <<OpCut>> } :
          doc = [item |-> TemplateItem, items |-> ls, operations |-> os,
                 routing |-> "R1"]
    /\ db = [b \in BomNames |->
                CASE b = "BOM-1" -> BomRow(<<TplLine("A-S", FALSE, 3, 30, "Kg")>>, <<OpSew>>, 0)
                  [] b = "BOM-2" -> BomRow(<<TplLine("B", FALSE, 4, 40, "Kg")>>, <<OpCut>>, 0)
                  [] OTHER -> BomRow(<<>>, <<>>, 0)]
    /\ committed = db
    /\ db0 = db
    /\ InitLocals

\* Data scenarios: both variants enabled, one active BOM each, any template
\* lines and any prior lines on BOM-1.
InitData ==
    /\ scenario = "resave"
    /\ item_has_variants = TRUE
    /\ variants = [v \in VariantNames |->
                     [disabled |-> FALSE, attributes |-> <<Attr("Size", OwnSize(v))>>]]
    /\ iva \in { IvaFixed, IvaFixed \cup IvaOptional }
    /\ bom_meta = [b \in BomNames |->
                     CASE b = "BOM-1" -> Meta("T-S", 1, 0)
                       [] b = "BOM-2" -> Meta("T-M", 1, 1)
                       [] OTHER -> Meta("T-S", 0, 0)]
    /\ \E ls \in SeqsUpTo(TplLinesData, MaxTplLines) :
          doc = [item |-> TemplateItem, items |-> ls, operations |-> <<OpSew, OpCut>>,
                 routing |-> "R1"]
    /\ \E ps \in SeqsUpTo(PriorLinesData, MaxPriorLines) :
          db = [b \in BomNames |->
                  CASE b = "BOM-1" -> BomRow(ps, <<OpSew>>, 0)
                    [] b = "BOM-2" -> BomRow(<<TplLine("A-M", FALSE, 4, 40, "Kg")>>, <<>>, 0)
                    [] OTHER -> BomRow(<<>>, <<>>, 0)]
    /\ committed = db
    /\ db0 = db
    /\ InitLocals

\* ------------------------------------------------------------ helpers
\* Lines 32-35: the first Size attribute of the variant item, else None.
ParentSize(attrs) ==
    LET hits == { i \in 1..Len(attrs) : attrs[i].attribute = "Size" }
    IN  IF hits = {} THEN None
        ELSE attrs[CHOOSE i \in hits : \A j \in hits : i <= j].attribute_value

\* Mutant: the has_variants test of line 14 left out.
IsTemplate_Always == TRUE

\* Line 14.
IsTemplate == item_has_variants

\* Mutant: the disabled filter of line 17 left out.
EnabledVariants_All == VariantNames

\* Line 17: the enabled items whose variant_of is the template item.
EnabledVariants == { v \in VariantNames : ~variants[v].disabled }

\* Lines 41-45: the active, non-cancelled BOMs of a variant item.
EligibleBoms(v) ==
    { b \in BomNames : /\ bom_meta[b].item = v
                       /\ bom_meta[b].is_active = 1
                       /\ bom_meta[b].docstatus # 2 }

\* Mutant: the attribute_value filter of line 79 left out.
MatchedVariants_AnySize(code, size) ==
    { r.parent : r \in { x \in iva : x.variant_of = code /\ x.attribute = "Size" } }

\* Lines 74-82: the parents of the Item Variant Attribute rows that match.
MatchedVariants(code, size) ==
    { r.parent : r \in { x \in iva : /\ x.variant_of = code
                                     /\ x.attribute = "Size"
                                     /\ x.attribute_value = size } }

\* Lines 58-62: the maps the loop can build from the rows of a BOM.  The
\* query has no ORDER BY, so any row of an item code may be the last one
\* written under that code.
SnapshotMaps(rows) ==
    LET codes == { rows[i].item_code : i \in 1..Len(rows) }
        pairs(c) == { [qty |-> rows[i].qty, rate |-> rows[i].rate] :
                        i \in { k \in 1..Len(rows) : rows[k].item_code = c } }
    IN  { m \in [codes -> UNION { pairs(c) : c \in codes }] :
            \A c \in codes : m[c] \in pairs(c) }

\* Line 103: qty_rate_map.get(new_code, {}).get("qty", tpl_item.qty)
QtyFor(map, code, tpl) ==
    IF code \in DOMAIN map THEN map[code].qty ELSE tpl.qty

\* Line 108: qty_rate_map.get(new_code, {}).get("rate", tpl_item.rate)
RateFor(map, code, tpl) ==
    IF code \in DOMAIN map THEN map[code].rate ELSE tpl.rate

\* Line 98: the item's own name, or the template line's.
NameFor(code, tpl) ==
    IF Truthy(ItemName(code)) THEN ItemName(code) ELSE tpl.item_name

\* Lines 92-114: the row inserted for template line number i.
ItemData(map, code, tpl, i, now) ==
    Line(code, NameFor(code, tpl), QtyFor(map, code, tpl), RateFor(map, code, tpl),
         tpl.uom, i, now)

\* Lines 124-136: the row inserted for template operation number i.
OpData(op, i, now) == Op(op.operation, op.workstation, op.time_in_mins, i, now)

CurVariant == variant_items[vi]
CurBom == variant_boms[bi]

\* The statement that follows the item loop's iteration l - 1.
PcAfterLine(l) ==
    IF l <= Len(doc.items) THEN "insert_item"
    ELSE IF Len(doc.operations) >= 1 THEN "insert_op" ELSE "set_routing"

PcAfterOp(o) == IF o <= Len(doc.operations) THEN "insert_op" ELSE "set_routing"

\* Line 47: on to the variant's next BOM, or line 27: to the next variant.
AdvanceBom ==
    IF bi < Len(variant_boms)
    THEN pc' = "snapshot" /\ bi' = bi + 1 /\ vi' = vi
    ELSE pc' = "variant" /\ vi' = vi + 1 /\ bi' = bi

TrySteps ==
    { "snapshot", "delete_items", "delete_ops", "insert_item", "insert_op",
      "set_routing", "touch", "commit" }

\* ------------------------------------------------------------ actions
\* Lines 14-15: not a template item.
NotTemplate ==
    /\ pc = "start"
    /\ ~IsTemplate
    /\ pc' = "done"
    /\ UNCHANGED <<catalog, db, committed, locals, errors, missing_variant_errors,
                   msgs, raised, logs, db0, commits, synced, faults, run>>

\* Lines 17-22: no enabled variant item.
NoVariants ==
    /\ pc = "start"
    /\ IsTemplate
    /\ EnabledVariants = {}
    /\ raised' = Append(raised, "No Variants Found")
    /\ pc' = "done"
    /\ UNCHANGED <<catalog, db, committed, locals, errors, missing_variant_errors,
                   msgs, logs, db0, commits, synced, faults, run>>

\* Lines 17, 24-25: the variant items, in the order the query returns them.
LoadVariants ==
    /\ pc = "start"
    /\ IsTemplate
    /\ EnabledVariants # {}
    /\ \E order \in Perms(EnabledVariants) : variant_items' = order
    /\ vi' = 1
    /\ errors' = <<>>
    /\ missing_variant_errors' = <<>>
    /\ pc' = "variant"
    /\ UNCHANGED <<catalog, db, committed, parent_size, variant_boms, bi,
                   qty_rate_map, li, oi, msgs, raised, logs, db0, commits,
                   synced, faults, run>>

\* Lines 36-38: a variant item without a Size value is skipped.
SkipVariant ==
    /\ pc = "variant"
    /\ vi <= Len(variant_items)
    /\ ~Truthy(ParentSize(variants[CurVariant].attributes))
    /\ parent_size' = ParentSize(variants[CurVariant].attributes)
    /\ msgs' = Append(msgs, <<"no Size attribute", CurVariant>>)
    /\ vi' = vi + 1
    /\ UNCHANGED <<catalog, db, committed, pc, variant_items, variant_boms, bi,
                   qty_rate_map, li, oi, errors, missing_variant_errors,
                   raised, logs, db0, commits, synced, faults, run>>

\* Lines 28-47: a variant item with a Size value; its BOMs are listed.
EnterVariant ==
    /\ pc = "variant"
    /\ vi <= Len(variant_items)
    /\ Truthy(ParentSize(variants[CurVariant].attributes))
    /\ parent_size' = ParentSize(variants[CurVariant].attributes)
    /\ \E order \in Perms(EligibleBoms(CurVariant)) :
          /\ variant_boms' = order
          /\ IF Len(order) = 0
             THEN pc' = "variant" /\ vi' = vi + 1 /\ bi' = 0
             ELSE pc' = "snapshot" /\ vi' = vi /\ bi' = 1
    /\ UNCHANGED <<catalog, db, committed, variant_items, qty_rate_map, li, oi,
                   errors, missing_variant_errors, msgs, raised, logs, db0,
                   commits, synced, faults, run>>

\* Lines 53-62.
Snapshot ==
    /\ pc = "snapshot"
    /\ \E m \in SnapshotMaps(db[CurBom].items) : qty_rate_map' = m
    /\ pc' = "delete_items"
    /\ UNCHANGED <<catalog, db, committed, variant_items, vi, parent_size,
                   variant_boms, bi, li, oi, errors, missing_variant_errors,
                   msgs, raised, logs, db0, commits, synced, faults, run>>

\* Mutant: line 65 left out.
DeleteItems_Keep ==
    /\ pc = "delete_items"
    /\ pc' = "delete_ops"
    /\ UNCHANGED <<catalog, db, committed, locals, errors, missing_variant_errors,
                   msgs, raised, logs, db0, commits, synced, faults, run>>

\* Line 65.
DeleteItems ==
    /\ pc = "delete_items"
    /\ db' = [db EXCEPT ![CurBom].items = <<>>]
    /\ pc' = "delete_ops"
    /\ UNCHANGED <<catalog, committed, locals, errors, missing_variant_errors,
                   msgs, raised, logs, db0, commits, synced, faults, run>>

\* Mutant: line 66 left out.
DeleteOperations_Keep ==
    /\ pc = "delete_ops"
    /\ li' = 1
    /\ pc' = PcAfterLine(1)
    /\ oi' = 1
    /\ UNCHANGED <<catalog, db, committed, variant_items, vi, parent_size,
                   variant_boms, bi, qty_rate_map, errors,
                   missing_variant_errors, msgs, raised, logs, db0, commits,
                   synced, faults, run>>

\* Line 66.
DeleteOperations ==
    /\ pc = "delete_ops"
    /\ db' = [db EXCEPT ![CurBom].operations = <<>>]
    /\ li' = 1
    /\ pc' = PcAfterLine(1)
    /\ oi' = 1
    /\ UNCHANGED <<catalog, committed, variant_items, vi, parent_size,
                   variant_boms, bi, qty_rate_map, errors,
                   missing_variant_errors, msgs, raised, logs, db0, commits,
                   synced, faults, run>>

\* Lines 70-84, 92-120: a template line is copied, under the code of its
\* size-matching variant when its item has variants.
CopyItem ==
    /\ pc = "insert_item"
    /\ LET tpl == doc.items[li]
           codes == IF tpl.has_variants
                    THEN MatchedVariants(tpl.item_code, parent_size)
                    ELSE { tpl.item_code }
       IN  \E new_code \in codes :
              db' = [db EXCEPT ![CurBom].items =
                        Append(@, ItemData(qty_rate_map, new_code, tpl, li, run))]
    /\ li' = li + 1
    /\ pc' = PcAfterLine(li + 1)
    /\ UNCHANGED <<catalog, committed, variant_items, vi, parent_size,
                   variant_boms, bi, qty_rate_map, oi, errors,
                   missing_variant_errors, msgs, raised, logs, db0, commits,
                   synced, faults, run>>

\* Mutant: the error of lines 158-162 thrown where the failure is found.
MissingVariant_Throw ==
    /\ pc = "insert_item"
    /\ doc.items[li].has_variants
    /\ MatchedVariants(doc.items[li].item_code, parent_size) = {}
    /\ missing_variant_errors' =
          Append(missing_variant_errors, <<doc.items[li].item_code, CurBom, li>>)
    /\ raised' = Append(raised, "Missing Variant Items")
    /\ pc' = "done"
    /\ UNCHANGED <<catalog, db, committed, locals, errors, msgs,
                   logs, db0, commits, synced, faults, run>>

\* Lines 85-90: no size-matching variant; the line is recorded and skipped.
MissingVariant ==
    /\ pc = "insert_item"
    /\ doc.items[li].has_variants
    /\ MatchedVariants(doc.items[li].item_code, parent_size) = {}
    /\ missing_variant_errors' =
          Append(missing_variant_errors, <<doc.items[li].item_code, CurBom, li>>)
    /\ li' = li + 1
    /\ pc' = PcAfterLine(li + 1)
    /\ UNCHANGED <<catalog, db, committed, variant_items, vi, parent_size,
                   variant_boms, bi, qty_rate_map, oi, errors, msgs, raised,
                   logs, db0, commits, synced, faults, run>>

\* Lines 123-142.
CopyOperation ==
    /\ pc = "insert_op"
    /\ db' = [db EXCEPT ![CurBom].operations =
                 Append(@, OpData(doc.operations[oi], oi, run))]
    /\ oi' = oi + 1
    /\ pc' = PcAfterOp(oi + 1)
    /\ UNCHANGED <<catalog, committed, variant_items, vi, parent_size,
                   variant_boms, bi, qty_rate_map, li, errors,
                   missing_variant_errors, msgs, raised, logs, db0, commits,
                   synced, faults, run>>

\* Line 145.
SetRouting ==
    /\ pc = "set_routing"
    /\ db' = [db EXCEPT ![CurBom].routing = doc.routing]
    /\ pc' = IF bom_meta[CurBom].docstatus = 1 THEN "touch" ELSE "commit"
    /\ UNCHANGED <<catalog, committed, locals, errors, missing_variant_errors,
                   msgs, raised, logs, db0, commits, synced, faults, run>>

\* Lines 148-149.
TouchModified ==
    /\ pc = "touch"
    /\ db' = [db EXCEPT ![CurBom].modified = run]
    /\ pc' = "commit"
    /\ UNCHANGED <<catalog, committed, locals, errors, missing_variant_errors,
                   msgs, raised, logs, db0, commits, synced, faults, run>>

\* Line 151: everything written in the open transaction becomes durable.
Commit ==
    /\ pc = "commit"
    /\ committed' = db
    /\ commits' = commits + 1
    /\ synced' = synced \cup { CurBom }
    /\ AdvanceBom
    /\ UNCHANGED <<catalog, db, variant_items, parent_size, variant_boms,
                   qty_rate_map, li, oi, errors, missing_variant_errors, msgs,
                   raised, logs, db0, faults, run>>

\* Mutant: the handler of lines 153-155 leaves the loops.
Raise_Abort ==
    /\ scenario = "faults"
    /\ pc \in TrySteps
    /\ faults < MaxFaults
    /\ faults' = faults + 1
    /\ logs' = Append(logs, CurBom)
    /\ errors' = Append(errors, CurBom)
    /\ pc' = "report"
    /\ UNCHANGED <<catalog, db, committed, locals, missing_variant_errors,
                   msgs, raised, db0, commits, synced, run>>

\* Lines 153-155: the statement about to run raises instead; the handler
\* logs, records the BOM and the loop goes on.
Raise ==
    /\ scenario = "faults"
    /\ pc \in TrySteps
    /\ faults < MaxFaults
    /\ faults' = faults + 1
    /\ logs' = Append(logs, CurBom)
    /\ errors' = Append(errors, CurBom)
    /\ AdvanceBom
    /\ UNCHANGED <<catalog, db, committed, variant_items, parent_size,
                   variant_boms, qty_rate_map, li, oi, missing_variant_errors,
                   msgs, raised, db0, commits, synced, run>>

\* Line 27: the variant loop ends.
VariantsDone ==
    /\ pc = "variant"
    /\ vi > Len(variant_items)
    /\ pc' = "report"
    /\ UNCHANGED <<catalog, db, committed, locals, errors, missing_variant_errors,
                   msgs, raised, logs, db0, commits, synced, faults, run>>

\* Lines 158-162.
ThrowMissing ==
    /\ pc = "report"
    /\ missing_variant_errors # <<>>
    /\ raised' = Append(raised, "Missing Variant Items")
    /\ pc' = "done"
    /\ UNCHANGED <<catalog, db, committed, locals, errors, missing_variant_errors,
                   msgs, logs, db0, commits, synced, faults, run>>

\* Lines 164-165.
WarnErrors ==
    /\ pc = "report"
    /\ missing_variant_errors = <<>>
    /\ errors # <<>>
    /\ msgs' = Append(msgs, <<"Errors in Syncing Variant BOMs", errors>>)
    /\ pc' = "done"
    /\ UNCHANGED <<catalog, db, committed, locals, errors, missing_variant_errors,
                   raised, logs, db0, commits, synced, faults, run>>

\* Lines 166-167.
ReportSuccess ==
    /\ pc = "report"
    /\ missing_variant_errors = <<>>
    /\ errors = <<>>
    /\ msgs' = Append(msgs, <<"All variant BOMs updated successfully.", <<>>>>)
    /\ pc' = "done"
    /\ UNCHANGED <<catalog, db, committed, locals, errors, missing_variant_errors,
                   raised, logs, db0, commits, synced, faults, run>>

\* The template BOM is saved again, unchanged: the hook runs on the storage
\* the previous run left.
SaveAgain ==
    /\ scenario = "resave"
    /\ pc = "done"
    /\ run < MaxRuns
    /\ run' = run + 1
    /\ db0' = db
    /\ pc' = "start"
    /\ variant_items' = <<>>
    /\ vi' = 0
    /\ parent_size' = None
    /\ variant_boms' = <<>>
    /\ bi' = 0
    /\ qty_rate_map' = <<>>
    /\ li' = 0
    /\ oi' = 0
    /\ errors' = <<>>
    /\ missing_variant_errors' = <<>>
    /\ msgs' = <<>>
    /\ raised' = <<>>
    /\ commits' = 0
    /\ synced' = {}
    /\ UNCHANGED <<catalog, db, committed, logs, faults>>

Sync ==
    \/ NotTemplate
    \/ NoVariants
    \/ LoadVariants
    \/ SkipVariant
    \/ EnterVariant
    \/ VariantsDone
    \/ Snapshot
    \/ DeleteItems
    \/ DeleteOperations
    \/ CopyItem
    \/ MissingVariant
    \/ CopyOperation
    \/ SetRouting
    \/ TouchModified
    \/ Commit
    \/ ThrowMissing
    \/ WarnErrors
    \/ ReportSuccess

Init == InitFaults \/ InitData

Next == Sync \/ Raise \/ SaveAgain

Spec == Init /\ [][Next]_vars

\* ------------------------------------------------- what the claims speak of
Range(s) == { s[i] : i \in 1..Len(s) }

\* The Size values a variant item carries.
SizeValues(v) ==
    { a.attribute_value : a \in { x \in Range(variants[v].attributes) :
                                    x.attribute = "Size" /\ Truthy(x.attribute_value) } }

\* A target variant BOM: active, not cancelled, of an enabled variant of the
\* template item that has a Size value.
Targets ==
    { b \in BomNames : /\ bom_meta[b].is_active = 1
                       /\ bom_meta[b].docstatus # 2
                       /\ bom_meta[b].item \in VariantNames
                       /\ ~variants[bom_meta[b].item].disabled
                       /\ SizeValues(bom_meta[b].item) # {} }

\* Variant of template item t with Size x, by the Item Variant Attribute table.
IsSizeVariant(code, t, x) ==
    \E r \in iva : /\ r.parent = code /\ r.variant_of = t
                   /\ r.attribute = "Size" /\ r.attribute_value = x

\* The template lines that have no size-matching variant for BOM b.
Unresolved(b) ==
    { i \in 1..Len(doc.items) :
        /\ doc.items[i].has_variants
        /\ ~\E r \in iva, x \in SizeValues(bom_meta[b].item) :
               IsSizeVariant(r.parent, doc.items[i].item_code, x) }

\* The size-match errors recorded for BOM b.
DroppedFor(b) ==
    Cardinality({ k \in 1..Len(missing_variant_errors) : missing_variant_errors[k][2] = b })

Failed == Range(errors)

\* The operations of row are the template's, field for field, all inserted by
\* this run.
OpsReplaced(row) ==
    /\ Len(row.operations) = Len(doc.operations)
    /\ \A i \in 1..Len(row.operations) :
          /\ row.operations[i].operation = doc.operations[i].operation
          /\ row.operations[i].workstation = doc.operations[i].workstation
          /\ row.operations[i].time_in_mins = doc.operations[i].time_in_mins
          /\ row.operations[i].idx = i
          /\ row.operations[i].creation = run

\* Line n is template line number n.idx as the hook is to copy it to BOM b.
LineCopied(b, n, prior) ==
    LET tpl == doc.items[n.idx]
        same == { k \in 1..Len(prior) : prior[k].item_code = n.item_code }
    IN  /\ n.creation = run
        /\ n.uom = tpl.uom
        /\ IF tpl.has_variants
           THEN \E x \in SizeValues(bom_meta[b].item) : IsSizeVariant(n.item_code, tpl.item_code, x)
           ELSE n.item_code = tpl.item_code
        /\ IF same = {}
           THEN n.qty = tpl.qty /\ n.rate = tpl.rate
           ELSE \E k \in same : n.qty = prior[k].qty /\ n.rate = prior[k].rate

\* row is BOM b fully reconciled from the contents before.
IsReconciled(b, row, before) ==
    LET kept == (1..Len(doc.items)) \ Unresolved(b)
    IN  /\ Len(row.items) = Cardinality(kept)
        /\ { row.items[k].idx : k \in 1..Len(row.items) } = kept
        /\ \A k \in 1..Len(row.items) :
              /\ row.items[k].idx \in 1..Len(doc.items)
              /\ LineCopied(b, row.items[k], before.items)
        /\ OpsReplaced(row)
        /\ row.routing = doc.routing
        /\ row.modified = IF bom_meta[b].docstatus = 1 THEN run ELSE before.modified

\* The position of the variant item of BOM b in the order of processing.
VariantPos(b) ==
    CHOOSE i \in 1..Len(variant_items) : variant_items[i] = bom_meta[b].item

\* What a line or an operation says, apart from when it was created.
LineContent(n) ==
    [item_code |-> n.item_code, item_name |-> n.item_name, qty |-> n.qty,
     rate |-> n.rate, uom |-> n.uom, idx |-> n.idx]
OpContent(o) ==
    [operation |-> o.operation, workstation |-> o.workstation,
     time_in_mins |-> o.time_in_mins, idx |-> o.idx]
Content(row) ==
    [items |-> [k \in 1..Len(row.items) |-> LineContent(row.items[k])],
     operations |-> [k \in 1..Len(row.operations) |-> OpContent(row.operations[k])]]

\* ------------------------------------------------------------- claims

\* C1 (as claimed): on every target BOM whose reconciliation completed, a
\* line whose item code was on the BOM before the sync carries the qty and
\* rate that item code had before, on whichever prior line it stood; a line
\* whose item code was not there carries the template line's qty and rate.
C1_QtyRateKept ==
    \A b \in synced : \A k \in 1..Len(db[b].items) :
        LET n == db[b].items[k]
            tpl == doc.items[n.idx]
            same == { j \in 1..Len(db0[b].items) : db0[b].items[j].item_code = n.item_code }
        IN  IF same = {}
            THEN n.qty = tpl.qty /\ n.rate = tpl.rate
            ELSE \A j \in same : /\ n.qty = db0[b].items[j].qty
                                 /\ n.rate = db0[b].items[j].rate

C3_FaultIsolated ==
    /\ Len(errors) = faults
    /\ logs = errors
    /\ Cardinality(Failed) = Len(errors)
    /\ Failed \subseteq Targets
    /\ (pc = "done" /\ item_has_variants) =>
          /\ \A b \in Targets \ Failed :
                /\ b \in synced
                /\ IsReconciled(b, db[b], db0[b])
                /\ committed[b] = db[b]
          /\ (errors # <<>> /\ missing_variant_errors = <<>>) =>
                /\ raised = <<>>
                /\ msgs # <<>>
                /\ msgs[Len(msgs)] = <<"Errors in Syncing Variant BOMs", errors>>

C3_Witness ==
    /\ pc = "done"
    /\ Len(errors) = 1
    /\ raised = <<>>
    /\ \E b \in synced :
          /\ VariantPos(b) > VariantPos(errors[1])
          /\ committed[b] = db[b]
          /\ db[b] # db0[b]

\* C4: a size-match failure is only recorded: the blocking error is raised
\* once, after every target BOM has been processed, exactly when a failure was
\* recorded, and every target BOM whose reconciliation raised no exception is
\* reconciled and committed, whichever variant came first.
C4_MissingRaisedLast ==
    /\ (pc # "done") => raised = <<>>
    /\ ("Missing Variant Items" \in Range(raised)) => Targets \subseteq (synced \cup Failed)
    /\ (pc = "done" /\ item_has_variants /\ \E v \in VariantNames : ~variants[v].disabled) =>
          /\ (missing_variant_errors # <<>>) <=> (raised = <<"Missing Variant Items">>)
          /\ (missing_variant_errors = <<>>) <=> (raised = <<>>)
          /\ \A b \in Targets \ Failed :
                /\ b \in synced
                /\ IsReconciled(b, committed[b], db0[b])

C4_Witness ==
    /\ pc = "done"
    /\ raised = <<"Missing Variant Items">>
    /\ \E b1, b2 \in synced :
          /\ Unresolved(b1) # {}
          /\ Unresolved(b2) = {}
          /\ VariantPos(b1) < VariantPos(b2)
          /\ Len(committed[b2].items) = Len(doc.items)
          /\ IsReconciled(b2, committed[b2], db0[b2])

\* C5: with a template item that has variants but no enabled variant item the
\* hook raises "No Variants Found" and has, when it does, written nothing
\* and committed nothing.
C5_NoVariantsNoWrite ==
    /\ (pc = "done" /\ item_has_variants /\ \A v \in VariantNames : variants[v].disabled) =>
          raised = <<"No Variants Found">>
    /\ ("No Variants Found" \in Range(raised)) =>
          /\ \A v \in VariantNames : variants[v].disabled
          /\ db = db0
          /\ committed = db0
          /\ commits = 0
          /\ msgs = <<>>

C5_Witness ==
    /\ raised = <<"No Variants Found">>
    /\ \E b \in BomNames : bom_meta[b].is_active = 1 /\ bom_meta[b].docstatus # 2
    /\ doc.items # <<>>

\* C6: with a template item that does not have has_variants set the hook
\* returns at once: nothing written, nothing committed, nothing raised,
\* nothing displayed.
C6_NotTemplateNoOp ==
    (~item_has_variants) =>
        /\ pc \in { "start", "done" }
        /\ db = db0
        /\ committed = db0
        /\ commits = 0
        /\ raised = <<>>
        /\ msgs = <<>>
        /\ logs = <<>>

C6_Witness ==
    /\ ~item_has_variants
    /\ pc = "done"
    /\ \E v \in VariantNames : ~variants[v].disabled /\ SizeValues(v) # {}
    /\ \E b \in BomNames : bom_meta[b].is_active = 1 /\ bom_meta[b].docstatus # 2
    /\ doc.items # <<>>

\* C7 (as claimed): when every enabled variant has exactly one eligible BOM
\* and no exception was raised, each such BOM ends with as many lines as the
\* template has, less those dropped for it, whatever the variant's attributes.
C7_LineCountAnyVariant ==
    ( /\ pc = "done"
      /\ item_has_variants
      /\ errors = <<>>
      /\ \A v \in VariantNames : ~variants[v].disabled =>
            Cardinality({ b \in BomNames : /\ bom_meta[b].item = v
                                           /\ bom_meta[b].is_active = 1
                                           /\ bom_meta[b].docstatus # 2 }) = 1 )
    => \A b \in BomNames :
          ( /\ ~variants[bom_meta[b].item].disabled
            /\ bom_meta[b].is_active = 1
            /\ bom_meta[b].docstatus # 2 )
          => Len(db[b].items) = Len(doc.items) - DroppedFor(b)

\* C7 (amended): each eligible BOM of an enabled variant that has a Size value
\* ends, when its reconciliation raised no exception, with as many lines as
\* the template has, less those dropped for it for an unresolved size match;
\* the BOM of a variant without a Size value keeps its lines.
C7_LineCount ==
    /\ \A b \in synced : Len(db[b].items) = Len(doc.items) - DroppedFor(b)
    /\ \A b \in BomNames \ Targets : db[b].items = db0[b].items
    /\ (pc = "done" /\ item_has_variants) =>
          \A b \in Targets \ Failed :
             /\ Len(db[b].items) = Len(doc.items) - DroppedFor(b)
             /\ Len(committed[b].items) = Len(doc.items) - DroppedFor(b)
             /\ DroppedFor(b) = Cardinality(Unresolved(b))

C7_Witness ==
    /\ pc = "done"
    /\ \E b \in Targets \ Failed :
          /\ DroppedFor(b) = 1
          /\ Len(doc.items) = 2
          /\ Len(db[b].items) = 1
          /\ db[b].items[1].creation = run
          /\ db0[b].items # <<>>

\* C8: a line inserted for a template line whose item has variants carries a
\* variant of that item whose Size is the Size of the BOM's own variant item,
\* never the template item's own code; a line inserted for any other template
\* line carries the template line's code; a template line without a
\* size-matching variant gets no line and one size-match error.
C8_SizeSubstitution ==
    /\ \A b \in BomNames : \A k \in 1..Len(db[b].items) :
          LET n == db[b].items[k]
          IN  n.creation = run =>
                LET tpl == doc.items[n.idx]
                IN  IF tpl.has_variants
                    THEN /\ n.item_code # tpl.item_code
                         /\ \E x \in SizeValues(bom_meta[b].item) :
                               IsSizeVariant(n.item_code, tpl.item_code, x)
                    ELSE n.item_code = tpl.item_code
    /\ \A b \in synced :
          /\ { db[b].items[k].idx : k \in 1..Len(db[b].items) } =
                (1..Len(doc.items)) \ Unresolved(b)
          /\ Len(db[b].items) = Len(doc.items) - Cardinality(Unresolved(b))
          /\ { missing_variant_errors[k][3] :
                 k \in { j \in 1..Len(missing_variant_errors) :
                           missing_variant_errors[j][2] = b } } = Unresolved(b)
          /\ DroppedFor(b) = Cardinality(Unresolved(b))

C8_Witness ==
    /\ pc = "done"
    /\ \E b1, b2 \in synced :
          /\ \E k \in 1..Len(db[b1].items) :
                /\ db[b1].items[k].item_code = "A-M"
                /\ doc.items[db[b1].items[k].idx].item_code = "A"
          /\ \E k \in 1..Len(db[b2].items) :
                /\ db[b2].items[k].item_code = "A-S"
                /\ doc.items[db[b2].items[k].idx].item_code = "A"

\* C9 (as claimed): in committed storage every target BOM is at every moment
\* either as it was before the sync or fully reconciled.
C9_CommittedWhole ==
    \A b \in Targets :
        committed[b] = db0[b] \/ IsReconciled(b, committed[b], db0[b])

\* C10 (as claimed): a second save of the unchanged template leaves the lines
\* and operations of every target BOM as the first save left them (stated
\* here for saves that raise nothing).
C10_Idempotent ==
    (pc = "done" /\ run >= 2 /\ raised = <<>>) =>
        \A b \in Targets : Content(db[b]) = Content(db0[b])

====
